---- MODULE Spec2Model ----
(***************************************************************************)
(* Model of the mailbox synchronisation core of ReachInbox:                *)
(* EmailSyncService (orchestrator, IMAP connections, fetch bursts and the  *)
(* downstream pipeline) together with the collaborators it calls           *)
(* (DatabaseService, ElasticsearchService, AIService, VectorDBService,     *)
(* SlackService, WebhookService).                                          *)
(*                                                                         *)
(* Every `await` of the TypeScript source is a suspension point, so an     *)
(* async method is modelled by one action per segment between awaits.      *)
(* Callbacks registered on an Imap object are actions enabled by the       *)
(* state of that connection.  The Imap library is taken to serve the       *)
(* commands of one connection in the order they were issued, and idle()    *)
(* and idle.stop() to enter and leave the push-wait mode as the calling    *)
(* code expects.                                                           *)
(***************************************************************************)
EXTENDS Integers, Sequences, FiniteSets, TLC

\* ------------------------------------------------------------------ bounds
MaxAccounts == 2
MaxConns == 2
MaxTimers == 2
MaxBursts == 2
MaxUid == 2
MaxFetched == 2
MaxFaults == 1
MaxQueue == 3
MaxBatches == 1
MaxBacklog == 51
MaxCalls == 2

\* ------------------------------------------------------- program constants
FetchCap == 50
DefaultConfidence == 5
AIConfidence == 9

AccountIds == 1..MaxAccounts
ConnIds == 1..MaxConns
BurstIds == 1..MaxBursts
DocIds == 1..MaxFetched
CallIds == 1..MaxCalls
Uids == 1..MaxUid
NoConn == 0

VARIABLES
  dbAccounts,   \* table email_accounts: account id -> "absent" | "active" | "inactive"
  accounts,     \* this.accounts: account id -> "none" | "active" | "inactive"
  connections,  \* this.connections: account id -> connection | NoConn
  isRunning,    \* this.isRunning
  syncInterval, \* this.syncInterval # null
  intervals,    \* number of interval timers armed in the runtime
  startPc,      \* "idle" | "loading": startSync() awaiting loadAccounts()
  loaded,       \* rows returned to the loadAccounts() in flight
  addPc,        \* 0, or the id returned to the addAccount() in flight
  addActive,    \* accountData.isActive of the addAccount() in flight
  conn,         \* the Imap objects ever constructed
  reconnect,    \* account id -> number of pending 30 s reconnect timeouts
  crashed,      \* an 'error' event found no listener
  lastApi,      \* last orchestrator call: "none" | "start" | "restart" | "stop" | "add"
  stopped,      \* stopSync() returned and startSync() was not called since
  sinceRestart, \* stopSync(); startSync() completed, nothing happened since
  returned,     \* how the orchestrator call that completed last came back
  bursts,       \* the fetchEmails() invocations
  procs,        \* the processEmails() invocation of each burst
  docs,         \* EmailDocuments built by parseEmail, by generated uuid
  db,           \* table emails
  emailSeq,     \* sequence emails_id_seq behind the SERIAL column emails.id
  es,           \* search index
  vec,          \* vector collection
  slack,        \* Slack notifications posted
  webhook,      \* webhooks posted
  emitted,      \* newEmail events emitted
  processed,    \* message ids whose pipeline ran to the newEmail emit
  faults,       \* failures injected so far
  calls         \* the DatabaseService method invocations in flight

orchVars == <<dbAccounts, accounts, connections, isRunning, syncInterval, intervals,
              startPc, loaded, addPc, addActive>>
connVars == <<conn, reconnect, crashed>>
histVars == <<lastApi, stopped, sinceRestart, returned>>
fetchVars == <<bursts, procs, docs>>
storeVars == <<db, emailSeq, es, vec, slack, webhook, emitted, processed>>
envVars == <<faults>>
poolVars == <<calls>>
vars == <<orchVars, connVars, histVars, fetchVars, storeVars, envVars,
         poolVars>>

\* ------------------------------------------------------------ account data
\* IMAPAccount.folders of each configured account.
FoldersOf(a) == IF a = 1 THEN <<"INBOX">> ELSE <<"INBOX", "Sent">>

\* SERIAL primary key of email_accounts.
NextAccountId == Cardinality({a \in AccountIds : dbAccounts[a] # "absent"}) + 1

\* The settled promise of an orchestrator call: resolved with value, or rejected.
NoCall == [call |-> "none", threw |-> FALSE, value |-> 0]

Resolved(call, value) == [call |-> call, threw |-> FALSE, value |-> value]

Rejected(call) == [call |-> call, threw |-> TRUE, value |-> 0]

\* ---------------------------------------------------------- Imap objects
FreshConn == [state |-> "unused", acct |-> 0, old |-> FALSE, errArmed |-> FALSE,
              listeners |-> <<>>, box |-> "none", idle |-> FALSE, queue |-> <<>>]

\* An Imap object after its 'end' event: no handler of it runs any more.
Ended == [FreshConn EXCEPT !.state = "ended"]

Unused(cn) == {c \in ConnIds : cn[c].state = "unused"}

Live(c) == conn[c].state \in {"connecting", "open"}

LiveConns(a) == {c \in ConnIds : conn[c].acct = a /\ Live(c)}

\* new Imap(...); register once('ready'), once('error'), once('end'); connect().
StartIDLEConnection(cn, a) ==
  LET c == CHOOSE x \in Unused(cn) : \A y \in Unused(cn) : x <= y
  IN [cn EXCEPT ![c] = [FreshConn EXCEPT !.state = "connecting", !.acct = a,
                                         !.errArmed = TRUE]]

RECURSIVE StartAll(_, _)
StartAll(cn, S) ==
  IF S = {} THEN cn
  ELSE LET a == CHOOSE x \in S : \A y \in S : x <= y
       IN StartAll(StartIDLEConnection(cn, a), S \ {a})

\* startIDLE: processFolder(folderName) for each folder issues openBox.
RECURSIVE OpenBoxCmds(_)
OpenBoxCmds(fs) ==
  IF fs = <<>> THEN <<>>
  ELSE <<[op |-> "openBox", folder |-> Head(fs), kind |-> "none", burst |-> 0]>>
       \o OpenBoxCmds(Tail(fs))

\* ------------------------------------------------------------ orchestrator
\* startSync(), up to the await of the SELECT in loadAccounts().
StartSyncBegin ==
  /\ ~crashed
  /\ startPc = "idle"
  /\ startPc' = "loading"
  /\ loaded' = {a \in AccountIds : dbAccounts[a] = "active"}
  /\ lastApi' = IF lastApi = "stop" THEN "restart" ELSE "start"
  /\ stopped' = FALSE
  /\ sinceRestart' = FALSE
  /\ UNCHANGED <<dbAccounts, accounts, connections, isRunning, syncInterval, intervals,
                 addPc, addActive, connVars, returned, fetchVars, storeVars, envVars, poolVars>>

\* loadAccounts() with this.accounts.clear() moved in front of the query.
LoadAccountsFailedCleared(acc) == [a \in AccountIds |-> "none"]

\* this.accounts after a loadAccounts() whose query failed: clear() is not reached.
LoadAccountsFailed(acc) == acc

\* loadAccounts() rethrows a failed query and startSync() rethrows it.
StartSyncFailed ==
  /\ ~crashed
  /\ startPc = "loading"
  /\ faults < MaxFaults
  /\ faults' = faults + 1
  /\ UNCHANGED poolVars
  /\ startPc' = "idle"
  /\ loaded' = {}
  /\ accounts' = LoadAccountsFailed(accounts)
  /\ returned' = Rejected("startSync")
  /\ UNCHANGED <<dbAccounts, connections, isRunning, syncInterval, intervals,
                 addPc, addActive, connVars, lastApi, stopped, sinceRestart,
                 fetchVars, storeVars>>

\* startSync() after the query returned: rebuild this.accounts, one
\* startIDLEConnection per active account, startPeriodicSync(), isRunning = true.
StartSyncLoaded ==
  /\ ~crashed
  /\ startPc = "loading"
  /\ Cardinality(loaded) <= Cardinality(Unused(conn))
  /\ intervals < MaxTimers
  /\ accounts' = [a \in AccountIds |-> IF a \in loaded THEN "active" ELSE "none"]
  /\ conn' = StartAll(conn, loaded)
  /\ syncInterval' = TRUE
  /\ intervals' = intervals + 1
  /\ isRunning' = TRUE
  /\ startPc' = "idle"
  /\ loaded' = {}
  /\ sinceRestart' = (lastApi = "restart")
  /\ returned' = Resolved("startSync", 0)
  /\ UNCHANGED <<dbAccounts, connections, addPc, addActive, reconnect, crashed,
                 lastApi, stopped, fetchVars, storeVars, envVars, poolVars>>

\* connection.end() of a connection found in this.connections.
EndConnection(r) ==
  IF r.state \in {"connecting", "open"} THEN [r EXCEPT !.state = "closing"] ELSE r

\* stopSync(): no await inside, one step.
StopSync ==
  /\ ~crashed
  /\ isRunning' = FALSE
  /\ syncInterval' = FALSE
  /\ intervals' = IF syncInterval THEN intervals - 1 ELSE intervals
  /\ conn' = [c \in ConnIds |->
                LET r == IF \E a \in AccountIds : connections[a] = c
                         THEN EndConnection(conn[c]) ELSE conn[c]
                IN IF r.state = "unused" THEN r ELSE [r EXCEPT !.old = TRUE]]
  /\ connections' = [a \in AccountIds |-> NoConn]
  /\ lastApi' = "stop"
  /\ stopped' = TRUE
  /\ sinceRestart' = FALSE
  /\ returned' = Resolved("stopSync", 0)
  /\ UNCHANGED <<dbAccounts, accounts, startPc, loaded, addPc, addActive,
                 reconnect, crashed, fetchVars, storeVars, envVars, poolVars>>

\* addAccount(accountData), up to the await of the INSERT ... RETURNING id.
AddAccountBegin(active) ==
  /\ ~crashed
  /\ addPc = 0
  /\ NextAccountId <= MaxAccounts
  /\ dbAccounts' = [dbAccounts EXCEPT ![NextAccountId] =
                      IF active THEN "active" ELSE "inactive"]
  /\ addPc' = NextAccountId
  /\ addActive' = active
  /\ lastApi' = "add"
  /\ sinceRestart' = FALSE
  /\ UNCHANGED <<accounts, connections, isRunning, syncInterval, intervals, startPc,
                 loaded, connVars, stopped, returned, fetchVars, storeVars, envVars, poolVars>>

\* addAccount(accountData) when the INSERT fails: logged and rethrown.
AddAccountFailed ==
  /\ ~crashed
  /\ addPc = 0
  /\ faults < MaxFaults
  /\ faults' = faults + 1
  /\ UNCHANGED poolVars
  /\ lastApi' = "add"
  /\ sinceRestart' = FALSE
  /\ returned' = Rejected("addAccount")
  /\ UNCHANGED <<orchVars, connVars, stopped, fetchVars, storeVars>>

\* addAccount without its this.accounts.set(...).
RegisterAccountSkipped(acc, id, isActive) == acc

\* this.accounts.set(accountId, { ...accountData, id: accountId })
RegisterAccount(acc, id, isActive) ==
  [acc EXCEPT ![id] = IF isActive THEN "active" ELSE "inactive"]

\* addAccount without its test of accountData.isActive.
AddAccountConnectAlways(cn, id, isActive) ==
  IF Unused(cn) # {} THEN StartIDLEConnection(cn, id) ELSE cn

\* if (accountData.isActive) await this.startIDLEConnection(accountId, ...)
AddAccountConnect(cn, id, isActive) ==
  IF isActive THEN StartIDLEConnection(cn, id) ELSE cn

\* addAccount(accountData) after the INSERT returned.
AddAccountDone ==
  /\ ~crashed
  /\ addPc # 0
  /\ addActive => Unused(conn) # {}
  /\ accounts' = RegisterAccount(accounts, addPc, addActive)
  /\ conn' = AddAccountConnect(conn, addPc, addActive)
  /\ addPc' = 0
  /\ addActive' = FALSE
  /\ returned' = Resolved("addAccount", addPc)
  /\ UNCHANGED <<dbAccounts, connections, isRunning, syncInterval, intervals, startPc,
                 loaded, reconnect, crashed, lastApi, stopped, sinceRestart,
                 fetchVars, storeVars, envVars, poolVars>>

\* ------------------------------------------------------ connection events
\* imap.once('ready'): register the connection and startIDLE().
ConnReady(c) ==
  /\ ~crashed
  /\ conn[c].state = "connecting"
  /\ connections' = [connections EXCEPT ![conn[c].acct] = c]
  /\ conn' = [conn EXCEPT ![c].state = "open",
                          ![c].queue = OpenBoxCmds(FoldersOf(conn[c].acct))]
  /\ UNCHANGED <<dbAccounts, accounts, isRunning, syncInterval, intervals, startPc,
                 loaded, addPc, addActive, reconnect, crashed, histVars, fetchVars,
                 storeVars, envVars, poolVars>>

\* imap.once('error'): drop the map entry of the account, arm the 30 s timeout.
ConnError(c) ==
  /\ ~crashed
  /\ conn[c].state \in {"connecting", "open", "closing"}
  /\ conn[c].errArmed
  /\ connections' = [connections EXCEPT ![conn[c].acct] = NoConn]
  /\ reconnect' = [reconnect EXCEPT ![conn[c].acct] = @ + 1]
  /\ conn' = [conn EXCEPT ![c].state = "dying", ![c].errArmed = FALSE]
  /\ sinceRestart' = FALSE
  /\ UNCHANGED <<dbAccounts, accounts, isRunning, syncInterval, intervals, startPc,
                 loaded, addPc, addActive, crashed, lastApi, stopped, returned,
                 fetchVars, storeVars, envVars, poolVars>>

\* A further 'error' of the same Imap object: the once-listener is gone.
ConnErrorAgain(c) ==
  /\ ~crashed
  /\ conn[c].state = "dying"
  /\ ~conn[c].errArmed
  /\ crashed' = TRUE
  /\ UNCHANGED <<orchVars, conn, reconnect, histVars, fetchVars, storeVars, envVars, poolVars>>

\* imap.once('end') of a connection the server closed without an error.
ServerHangup(c) ==
  /\ ~crashed
  /\ conn[c].state \in {"connecting", "open"}
  /\ connections' = [connections EXCEPT ![conn[c].acct] = NoConn]
  /\ conn' = [conn EXCEPT ![c] = Ended]
  /\ sinceRestart' = FALSE
  /\ UNCHANGED <<dbAccounts, accounts, isRunning, syncInterval, intervals, startPc,
                 loaded, addPc, addActive, reconnect, crashed, lastApi, stopped,
                 returned, fetchVars, storeVars, envVars, poolVars>>

\* imap.once('end') after connection.end() or after an error.
ConnEnd(c) ==
  /\ ~crashed
  /\ conn[c].state \in {"closing", "dying"}
  /\ connections' = [connections EXCEPT ![conn[c].acct] = NoConn]
  /\ conn' = [conn EXCEPT ![c] = Ended]
  /\ UNCHANGED <<dbAccounts, accounts, isRunning, syncInterval, intervals, startPc,
                 loaded, addPc, addActive, reconnect, crashed, histVars, fetchVars,
                 storeVars, envVars, poolVars>>

\* The setTimeout callback of the 'error' handler.
ReconnectTimer(a) ==
  /\ ~crashed
  /\ reconnect[a] > 0
  /\ isRunning => Unused(conn) # {}
  /\ reconnect' = [reconnect EXCEPT ![a] = @ - 1]
  /\ conn' = IF isRunning THEN StartIDLEConnection(conn, a) ELSE conn
  /\ UNCHANGED <<orchVars, crashed, histVars, fetchVars, storeVars, envVars, poolVars>>

\* ------------------------------------------------------------ environment
\* Message-ID header of the mailbox item with this uid (0: the header is missing).
ServerMid(u) == IF u % 2 = 1 THEN u ELSE 0

RECURSIVE SortedSeq(_)
SortedSeq(S) ==
  IF S = {} THEN <<>>
  ELSE LET m == CHOOSE x \in S : \A y \in S : x <= y
       IN <<m>> \o SortedSeq(S \ {m})

\* What the server may answer to a SEARCH: uids in ascending order.
SearchResults == {SortedSeq(S) : S \in SUBSET Uids}

\* What the server answers to a SEARCH of a folder holding n matching messages.
Backlogs == {[i \in 1..n |-> i] : n \in 0..MaxBacklog}

\* Array.prototype.slice(-n)
SliceLast(q, n) == IF Len(q) <= n THEN q ELSE SubSeq(q, Len(q) - n + 1, Len(q))

\* ------------------------------------------------------------ fetch bursts
FreshBurst == [state |-> "unused", conn |-> 0, acct |-> 0, folder |-> "none",
               box |-> "none", uids |-> <<>>, next |-> 1, pending |-> {},
               emails |-> <<>>, seenBefore |-> {}]

FreshProc == [step |-> "none", i |-> 0, category |-> "none", confidence |-> 0,
              aiFailed |-> FALSE, cause |-> "none"]

FreshDoc == [used |-> FALSE, messageId |-> <<"none", 0>>, uid |-> 0, acct |-> 0,
             folder |-> "none"]

UnusedBursts == {b \in BurstIds : bursts[b].state = "unused"}

RECURSIVE SumLen(_)
SumLen(S) ==
  IF S = {} THEN 0
  ELSE LET b == CHOOSE x \in S : TRUE IN Len(bursts[b].uids) + SumLen(S \ {b})

Fetched == SumLen(BurstIds)

CanFetch(uids) ==
  uids # <<>> => (UnusedBursts # {} /\ Fetched + Len(uids) <= MaxFetched)

\* fetchEmails(accountId, imap, folderName, uids) up to its return: imap.fetch
\* is issued and the listeners are registered; nothing is awaited.
FetchEmails(bs, c, folder, uids) ==
  IF uids = <<>> THEN bs
  ELSE LET b == CHOOSE x \in UnusedBursts : \A y \in UnusedBursts : x <= y
       IN [bs EXCEPT ![b] = [FreshBurst EXCEPT !.state = "fetching", !.conn = c,
                                               !.acct = conn[c].acct,
                                               !.folder = folder,
                                               !.box = conn[c].box,
                                               !.uids = uids,
                                               !.seenBefore = processed]]

FetchCmds(c, uids) ==
  IF uids = <<>> THEN <<>>
  ELSE <<[op |-> "fetch", folder |-> "none", kind |-> "none",
          burst |-> CHOOSE x \in UnusedBursts : \A y \in UnusedBursts : x <= y]>>

Serving(c) == conn[c].state \in {"open", "closing"} /\ conn[c].queue # <<>>

\* Callback of imap.openBox(folderName, true, ...) in processFolder.
OpenBoxDone(c, ok) ==
  /\ ~crashed
  /\ Serving(c)
  /\ Head(conn[c].queue).op = "openBox"
  /\ ~ok => faults < MaxFaults
  /\ faults' = IF ok THEN faults ELSE faults + 1
  /\ UNCHANGED poolVars
  /\ LET f == Head(conn[c].queue).folder
     IN conn' = IF ok
                THEN [conn EXCEPT
                        ![c].box = f,
                        ![c].idle = TRUE,
                        ![c].listeners = Append(@, f),
                        ![c].queue = Append(Tail(@),
                           [op |-> "search", folder |-> f, kind |-> "since", burst |-> 0])]
                ELSE [conn EXCEPT ![c].queue = Tail(@)]
  /\ UNCHANGED <<orchVars, reconnect, crashed, histVars, fetchVars, storeVars>>

\* The ids that the callback of the look-back search passes to fetchEmails.
SinceBatch(ok, results) == IF ok THEN SliceLast(results, FetchCap) ELSE <<>>

\* Callback of imap.search(['SINCE', since], ...) in processFolder.
SearchSinceAnswer(c, ok, results) ==
  /\ ~crashed
  /\ Serving(c)
  /\ Head(conn[c].queue).op = "search"
  /\ Head(conn[c].queue).kind = "since"
  /\ ~ok => faults < MaxFaults
  /\ faults' = IF ok THEN faults ELSE faults + 1
  /\ UNCHANGED poolVars
  /\ LET uids == SinceBatch(ok, results)
     IN /\ uids # <<>> => UnusedBursts # {}
        /\ bursts' = FetchEmails(bursts, c, Head(conn[c].queue).folder, uids)
        /\ conn' = [conn EXCEPT ![c].queue = Tail(@) \o FetchCmds(c, uids)]
  /\ UNCHANGED <<orchVars, reconnect, crashed, histVars, procs, docs, storeVars>>

\* The same callback while the documents of the model last.
SearchSinceDone(c, ok, results) ==
  /\ CanFetch(SinceBatch(ok, results))
  /\ SearchSinceAnswer(c, ok, results)

\* imap.on('mail'): every registered listener runs handleNewMail up to its
\* imap.search call.
RECURSIVE UnseenCmds(_)
UnseenCmds(fs) ==
  IF fs = <<>> THEN <<>>
  ELSE <<[op |-> "search", folder |-> Head(fs), kind |-> "unseen", burst |-> 0]>>
       \o UnseenCmds(Tail(fs))

MailEvent(c) ==
  /\ ~crashed
  /\ conn[c].state = "open"
  /\ conn[c].listeners # <<>>
  /\ Len(conn[c].queue) + Len(conn[c].listeners) <= MaxQueue
  /\ conn' = [conn EXCEPT ![c].idle = FALSE,
                          ![c].queue = @ \o UnseenCmds(conn[c].listeners)]
  /\ UNCHANGED <<orchVars, reconnect, crashed, histVars, fetchVars, storeVars, envVars, poolVars>>

\* The ids that the callback of the UNSEEN search passes to fetchEmails.
UnseenBatch(ok, results) == IF ok THEN results ELSE <<>>

\* Callback of imap.search(['UNSEEN'], ...) in handleNewMail.
SearchUnseenAnswer(c, ok, results) ==
  /\ ~crashed
  /\ Serving(c)
  /\ Head(conn[c].queue).op = "search"
  /\ Head(conn[c].queue).kind = "unseen"
  /\ ~ok => faults < MaxFaults
  /\ faults' = IF ok THEN faults ELSE faults + 1
  /\ UNCHANGED poolVars
  /\ LET uids == UnseenBatch(ok, results)
     IN /\ uids # <<>> => UnusedBursts # {}
        /\ bursts' = FetchEmails(bursts, c, Head(conn[c].queue).folder, uids)
        /\ conn' = [conn EXCEPT ![c].queue = Tail(@) \o FetchCmds(c, uids),
                                ![c].idle = IF ok THEN TRUE ELSE @]
  /\ UNCHANGED <<orchVars, reconnect, crashed, histVars, procs, docs, storeVars>>

\* The same callback while the documents of the model last.
SearchUnseenDone(c, ok, results) ==
  /\ CanFetch(UnseenBatch(ok, results))
  /\ SearchUnseenAnswer(c, ok, results)

Streaming(b) ==
  /\ bursts[b].state = "fetching"
  /\ Serving(bursts[b].conn)
  /\ Head(conn[bursts[b].conn].queue).op = "fetch"
  /\ Head(conn[bursts[b].conn].queue).burst = b

\* fetch.on('message') ... msg.once('end'): the async handler starts and
\* suspends at its await of simpleParser.
FetchMessage(b) ==
  /\ ~crashed
  /\ Streaming(b)
  /\ bursts[b].next <= Len(bursts[b].uids)
  /\ bursts' = [bursts EXCEPT ![b].pending = @ \cup {bursts[b].next},
                              ![b].next = @ + 1]
  /\ UNCHANGED <<orchVars, connVars, histVars, procs, docs, storeVars, envVars, poolVars>>

UnusedDocs == {d \in DocIds : ~docs[d].used}

\* uuidv4(): an identifier no earlier call returned.
Uuidv4 == CHOOSE d \in UnusedDocs : \A e \in UnusedDocs : d <= e

\* parseEmail: the EmailDocument, with messageId = parsed.messageId || emailId
EmailDoc(emailId, u, a, folder) ==
  [used |-> TRUE,
   messageId |-> IF ServerMid(u) # 0 THEN <<"srv", ServerMid(u)>> ELSE <<"gen", emailId>>,
   uid |-> u, acct |-> a, folder |-> folder]

\* parseEmail: const emailId = uuidv4()
ParseEmail(u, a, folder) == EmailDoc(Uuidv4, u, a, folder)

\* The rest of the msg 'end' handler: simpleParser resolved or rejected,
\* parseEmail, emails.push.
ParseDone(b, k, ok) ==
  /\ ~crashed
  /\ k \in bursts[b].pending
  /\ ~ok => faults < MaxFaults
  /\ faults' = IF ok THEN faults ELSE faults + 1
  /\ UNCHANGED poolVars
  /\ IF ok /\ accounts[bursts[b].acct] # "none"
     THEN /\ UnusedDocs # {}
          /\ docs' = [docs EXCEPT ![Uuidv4] =
                        ParseEmail(bursts[b].uids[k], bursts[b].acct, bursts[b].folder)]
          /\ bursts' = [bursts EXCEPT ![b].pending = @ \ {k},
                                      ![b].emails = Append(@, Uuidv4)]
     ELSE /\ docs' = docs
          /\ bursts' = [bursts EXCEPT ![b].pending = @ \ {k}]
  /\ UNCHANGED <<orchVars, connVars, histVars, procs, storeVars>>

\* fetch.once('end'): processEmails(emails) is called if emails is not empty.
FetchEnd(b) ==
  /\ ~crashed
  /\ Streaming(b)
  /\ bursts[b].next > Len(bursts[b].uids)
  /\ bursts' = [bursts EXCEPT ![b].state = "ended"]
  /\ conn' = [conn EXCEPT ![bursts[b].conn].queue = Tail(@)]
  /\ procs' = IF bursts[b].emails # <<>>
              THEN [procs EXCEPT ![b] = [FreshProc EXCEPT !.step = "check", !.i = 1]]
              ELSE procs
  /\ UNCHANGED <<orchVars, reconnect, crashed, histVars, docs, storeVars, envVars, poolVars>>

\* fetch.once('error'): logged.
FetchError(b) ==
  /\ ~crashed
  /\ Streaming(b)
  /\ faults < MaxFaults
  /\ faults' = faults + 1
  /\ UNCHANGED poolVars
  /\ bursts' = [bursts EXCEPT ![b].state = "error"]
  /\ conn' = [conn EXCEPT ![bursts[b].conn].queue = Tail(@)]
  /\ UNCHANGED <<orchVars, reconnect, crashed, histVars, procs, docs, storeVars>>

\* ------------------------------------------------------------ collaborators
AIOutcomes == {"Interested", "Not Interested", "fail"}

\* categorizeEmail without its catch block: the provider's error reaches the caller.
CategorizeEmailRethrows(outcome) ==
  IF outcome = "fail"
  THEN [threw |-> TRUE, category |-> "none", confidence |-> 0]
  ELSE [threw |-> FALSE, category |-> outcome, confidence |-> AIConfidence]

\* AIService.categorizeEmail: the provider's answer, or the default
\* categorization when the provider call throws.
CategorizeEmail(outcome) ==
  IF outcome = "fail"
  THEN [threw |-> FALSE, category |-> "Not Interested", confidence |-> DefaultConfidence]
  ELSE [threw |-> FALSE, category |-> outcome, confidence |-> AIConfidence]

\* The row that the INSERT of storeEmailInDatabase proposes for document d;
\* emails.id is nextval of the sequence, updatedAt the time of the parse.
NewRow(seq, d, category, confidence) ==
  [id |-> seq + 1, messageId |-> docs[d].messageId,
   acct |-> docs[d].acct, folder |-> docs[d].folder,
   aiCategory |-> category, aiConfidence |-> confidence,
   isRead |-> FALSE, isImportant |-> FALSE, updatedAt |-> d]

\* ON CONFLICT (message_id) DO UPDATE SET every column of the proposed row.
UpsertOverwrites(rows, seq, d, category, confidence) ==
  {r \in rows : r.messageId # docs[d].messageId}
    \cup {NewRow(seq, d, category, confidence)}

\* INSERT INTO emails ... ON CONFLICT (message_id) DO UPDATE SET
\* updated_at, ai_category, ai_confidence
Upsert(rows, seq, d, category, confidence) ==
  IF \E r \in rows : r.messageId = docs[d].messageId
  THEN {IF r.messageId = docs[d].messageId
        THEN [r EXCEPT !.aiCategory = category, !.aiConfidence = confidence,
                       !.updatedAt = d]
        ELSE r : r \in rows}
  ELSE rows \cup {NewRow(seq, d, category, confidence)}

\* client.index({ index, id: email.id, body: email })
IndexEmail(index, d, category, confidence) ==
  {e \in index : e.id # d}
    \cup {[id |-> d, messageId |-> docs[d].messageId,
           aiCategory |-> category, aiConfidence |-> confidence,
           isRead |-> FALSE, isImportant |-> FALSE]}

\* client.get({ index, id }): the stored document or a 404.
GetEmailById(index, d) == \E e \in index : e.id = d

\* ------------------------------------------------------------ processEmails
Email(b) == bursts[b].emails[procs[b].i]

At(b, step) == procs[b].step = step

\* The loop of processEmails stepping over every second element.
NextEmailSkipsOne(b) ==
  IF procs[b].i + 2 <= Len(bursts[b].emails)
  THEN [FreshProc EXCEPT !.step = "check", !.i = procs[b].i + 2]
  ELSE [FreshProc EXCEPT !.step = "done", !.i = procs[b].i]

\* The for-of iterator of the emails array asked for its next element.
NextEmail(b) ==
  IF procs[b].i + 1 <= Len(bursts[b].emails)
  THEN [FreshProc EXCEPT !.step = "check", !.i = procs[b].i + 1]
  ELSE [FreshProc EXCEPT !.step = "done", !.i = procs[b].i]

\* The catch around the loop: logged, the invocation returns.
Abort(b, step) == [procs[b] EXCEPT !.step = "aborted", !.cause = step]

\* const existing = await getEmailById(email.id); if (existing) continue;
Check(b, ok) ==
  /\ ~crashed
  /\ At(b, "check")
  /\ ~ok => faults < MaxFaults
  /\ faults' = IF ok THEN faults ELSE faults + 1
  /\ UNCHANGED poolVars
  /\ procs' = [procs EXCEPT ![b] =
                 IF ~ok THEN Abort(b, "check")
                 ELSE IF GetEmailById(es, Email(b)) THEN NextEmail(b)
                 ELSE [@ EXCEPT !.step = "classify"]]
  /\ UNCHANGED <<orchVars, connVars, histVars, bursts, docs, storeVars>>

\* const categorization = await this.aiService.categorizeEmail(...)
Classify(b, outcome) ==
  /\ ~crashed
  /\ At(b, "classify")
  /\ outcome = "fail" => faults < MaxFaults
  /\ faults' = IF outcome = "fail" THEN faults + 1 ELSE faults
  /\ UNCHANGED poolVars
  /\ LET r == CategorizeEmail(outcome)
     IN procs' = [procs EXCEPT ![b] =
                    IF r.threw THEN Abort(b, "classify")
                    ELSE [@ EXCEPT !.step = "store", !.category = r.category,
                                   !.confidence = r.confidence,
                                   !.aiFailed = (outcome = "fail")]]
  /\ UNCHANGED <<orchVars, connVars, histVars, bursts, docs, storeVars>>

\* await this.storeEmailInDatabase(email): a failed query is logged there.
Store(b, ok) ==
  /\ ~crashed
  /\ At(b, "store")
  /\ ~ok => faults < MaxFaults
  /\ faults' = IF ok THEN faults ELSE faults + 1
  /\ UNCHANGED poolVars
  /\ db' = IF ok
           THEN Upsert(db, emailSeq, Email(b), procs[b].category, procs[b].confidence)
           ELSE db
  /\ emailSeq' = IF ok THEN emailSeq + 1 ELSE emailSeq
  /\ procs' = [procs EXCEPT ![b].step = "index"]
  /\ UNCHANGED <<orchVars, connVars, histVars, bursts, docs, es, vec, slack, webhook,
                 emitted, processed>>

\* await this.elasticsearchService.indexEmail(email): a failure is rethrown.
Index(b, ok) ==
  /\ ~crashed
  /\ At(b, "index")
  /\ ~ok => faults < MaxFaults
  /\ faults' = IF ok THEN faults ELSE faults + 1
  /\ UNCHANGED poolVars
  /\ es' = IF ok THEN IndexEmail(es, Email(b), procs[b].category, procs[b].confidence)
           ELSE es
  /\ procs' = [procs EXCEPT ![b] =
                 IF ok THEN [@ EXCEPT !.step = "vector"] ELSE Abort(b, "index")]
  /\ UNCHANGED <<orchVars, connVars, histVars, bursts, docs, db, emailSeq,
                 vec, slack, webhook,
                 emitted, processed>>

\* await this.vectorDBService.storeEmail(email): a failure is logged there.
Vector(b, ok) ==
  /\ ~crashed
  /\ At(b, "vector")
  /\ ~ok => faults < MaxFaults
  /\ faults' = IF ok THEN faults ELSE faults + 1
  /\ UNCHANGED poolVars
  /\ vec' = IF ok THEN vec \cup {Email(b)} ELSE vec
  /\ procs' = [procs EXCEPT ![b].step =
                 IF procs[b].category = "Interested" THEN "slack" ELSE "emit"]
  /\ UNCHANGED <<orchVars, connVars, histVars, bursts, docs, db, emailSeq,
                 es, slack, webhook,
                 emitted, processed>>

\* handleInterestedEmail: await sendInterestedEmailNotification(email)
Slack(b, ok) ==
  /\ ~crashed
  /\ At(b, "slack")
  /\ ~ok => faults < MaxFaults
  /\ faults' = IF ok THEN faults ELSE faults + 1
  /\ UNCHANGED poolVars
  /\ slack' = IF ok THEN slack \cup {Email(b)} ELSE slack
  /\ procs' = [procs EXCEPT ![b].step = "webhook"]
  /\ UNCHANGED <<orchVars, connVars, histVars, bursts, docs, db, emailSeq,
                 es, vec, webhook,
                 emitted, processed>>

\* handleInterestedEmail: await triggerInterestedEmailWebhook(email)
Webhook(b, ok) ==
  /\ ~crashed
  /\ At(b, "webhook")
  /\ ~ok => faults < MaxFaults
  /\ faults' = IF ok THEN faults ELSE faults + 1
  /\ UNCHANGED poolVars
  /\ webhook' = IF ok THEN webhook \cup {Email(b)} ELSE webhook
  /\ procs' = [procs EXCEPT ![b].step = "emit"]
  /\ UNCHANGED <<orchVars, connVars, histVars, bursts, docs, db, emailSeq,
                 es, vec, slack,
                 emitted, processed>>

\* this.io.emit('newEmail', ...) and the end of the loop body.
Emit(b) ==
  /\ ~crashed
  /\ At(b, "emit")
  /\ emitted' = emitted \cup {Email(b)}
  /\ processed' = processed \cup {docs[Email(b)].messageId}
  /\ procs' = [procs EXCEPT ![b] = NextEmail(b)]
  /\ UNCHANGED <<orchVars, connVars, histVars, bursts, docs, db, emailSeq,
                 es, vec, slack,
                 webhook, envVars, poolVars>>

\* ------------------------------------------------------------ email routes
\* The :id of a route as a key of the search index or the vector collection,
\* and the key under which the pipeline wrote document d there: the decimal
\* text of a SERIAL value is never the text of a uuid.
SerialKey(n) == <<"serial", n>>

UuidKey(d) == <<"uuid", d>>

\* CURRENT_TIMESTAMP on the scale of updatedAt: not before the latest parse.
Now == Cardinality({d \in DocIds : docs[d].used})

\* PATCH /api/emails/:id with isRead and isImportant: UPDATE emails SET
\* is_read, is_important, updated_at WHERE id, then updateEmail(id, ...) on the
\* search index, whose failure is logged.
PatchEmail(n, isRead, isImportant) ==
  /\ ~crashed
  /\ \E r \in db : r.id = n /\ (r.isRead # isRead \/ r.isImportant # isImportant)
  /\ db' = {IF r.id = n
            THEN [r EXCEPT !.isRead = isRead, !.isImportant = isImportant,
                           !.updatedAt = Now]
            ELSE r : r \in db}
  /\ es' = {IF UuidKey(e.id) = SerialKey(n)
            THEN [e EXCEPT !.isRead = isRead, !.isImportant = isImportant]
            ELSE e : e \in es}
  /\ UNCHANGED <<orchVars, connVars, histVars, fetchVars, emailSeq, vec, slack, webhook,
                 emitted, processed, envVars, poolVars>>

\* DELETE /api/emails/:id of an existing row: DELETE FROM emails WHERE id,
\* then deleteEmail(id) on the search index and on the vector collection,
\* whose failures are logged.
DeleteEmail(n) ==
  /\ ~crashed
  /\ \E r \in db : r.id = n
  /\ db' = {r \in db : r.id # n}
  /\ es' = {e \in es : UuidKey(e.id) # SerialKey(n)}
  /\ vec' = {d \in vec : UuidKey(d) # SerialKey(n)}
  /\ UNCHANGED <<orchVars, connVars, histVars, fetchVars, emailSeq, slack, webhook,
                 emitted, processed, envVars, poolVars>>

\* ------------------------------------------------- DatabaseService and pool
\* One invocation of initialize, query or transaction.  acquired counts the
\* clients pool.connect() handed to it, released its client.release() calls.
FreshCall ==
  [method |-> "none", pc |-> "idle", acquired |-> 0, released |-> 0,
   callback |-> "none", commit |-> FALSE, rollback |-> FALSE, error |-> "none",
   outcome |-> "none"]

PoolMethods == {"initialize", "query", "transaction"}

\* The statement after `const client = await this.pool.connect()`.
FirstStep(method) ==
  CASE method = "initialize" -> "test"
    [] method = "query" -> "query"
    [] method = "transaction" -> "begin"

\* The invocation ends: its promise resolves, or rejects with the error in
\* flight ("callback": the one the transaction callback threw).
Settle(call, error) ==
  [call EXCEPT !.pc = "done", !.error = error,
               !.outcome = IF error = "none" THEN "returned" ELSE "threw"]

\* A caller invokes a method of the service.
PoolCall(c, method) ==
  /\ calls[c].pc \in {"idle", "done"}
  /\ calls' = [calls EXCEPT ![c] = [FreshCall EXCEPT !.method = method,
                                                     !.pc = "connect"]]
  /\ UNCHANGED <<orchVars, connVars, histVars, fetchVars, storeVars, envVars>>

\* const client = await this.pool.connect(), the first statement of
\* initialize, query and transaction, outside every finally.
PoolConnect(c, ok) ==
  /\ calls[c].pc = "connect"
  /\ ~ok => faults < MaxFaults
  /\ faults' = IF ok THEN faults ELSE faults + 1
  /\ calls' = [calls EXCEPT ![c] =
                 IF ok THEN [@ EXCEPT !.acquired = @ + 1, !.pc = FirstStep(calls[c].method)]
                 ELSE Settle(@, "connect")]
  /\ UNCHANGED <<orchVars, connVars, histVars, fetchVars, storeVars>>

\* initialize: await client.query('SELECT NOW()'); client.release(); the
\* release is a plain statement after the query, the catch logs and rethrows.
InitializeTest(c, ok) ==
  /\ calls[c].pc = "test"
  /\ ~ok => faults < MaxFaults
  /\ faults' = IF ok THEN faults ELSE faults + 1
  /\ calls' = [calls EXCEPT ![c] =
                 IF ok THEN [@ EXCEPT !.released = @ + 1, !.pc = "connectTables"]
                 ELSE Settle(@, "statement")]
  /\ UNCHANGED <<orchVars, connVars, histVars, fetchVars, storeVars>>

\* createTables: const client = await this.pool.connect().
CreateTablesConnect(c, ok) ==
  /\ calls[c].pc = "connectTables"
  /\ ~ok => faults < MaxFaults
  /\ faults' = IF ok THEN faults ELSE faults + 1
  /\ calls' = [calls EXCEPT ![c] =
                 IF ok THEN [@ EXCEPT !.acquired = @ + 1, !.pc = "tables"]
                 ELSE Settle(@, "connect")]
  /\ UNCHANGED <<orchVars, connVars, histVars, fetchVars, storeVars>>

\* createTables: try { the CREATE statements } catch { throw } finally
\* { client.release() }.
CreateTablesRun(c, ok) ==
  /\ calls[c].pc = "tables"
  /\ ~ok => faults < MaxFaults
  /\ faults' = IF ok THEN faults ELSE faults + 1
  /\ calls' = [calls EXCEPT ![c] =
                 Settle([@ EXCEPT !.released = @ + 1],
                        IF ok THEN "none" ELSE "statement")]
  /\ UNCHANGED <<orchVars, connVars, histVars, fetchVars, storeVars>>

\* query: try { return await client.query(text, params) } finally
\* { client.release() }.
QueryRun(c, ok) ==
  /\ calls[c].pc = "query"
  /\ ~ok => faults < MaxFaults
  /\ faults' = IF ok THEN faults ELSE faults + 1
  /\ calls' = [calls EXCEPT ![c] =
                 Settle([@ EXCEPT !.released = @ + 1],
                        IF ok THEN "none" ELSE "statement")]
  /\ UNCHANGED <<orchVars, connVars, histVars, fetchVars, storeVars>>

\* transaction: await client.query('BEGIN'); a failure enters the catch.
TransactionBegin(c, ok) ==
  /\ calls[c].pc = "begin"
  /\ ~ok => faults < MaxFaults
  /\ faults' = IF ok THEN faults ELSE faults + 1
  /\ calls' = [calls EXCEPT ![c] =
                 IF ok THEN [@ EXCEPT !.pc = "callback"]
                 ELSE [@ EXCEPT !.pc = "rollback", !.error = "statement"]]
  /\ UNCHANGED <<orchVars, connVars, histVars, fetchVars, storeVars>>

\* transaction: const result = await callback(client); the callback is the
\* caller's code and may throw.
TransactionCallback(c, ok) ==
  /\ calls[c].pc = "callback"
  /\ calls' = [calls EXCEPT ![c] =
                 IF ok THEN [@ EXCEPT !.callback = "ok", !.pc = "commit"]
                 ELSE [@ EXCEPT !.callback = "threw", !.pc = "rollback",
                                !.error = "callback"]]
  /\ UNCHANGED <<orchVars, connVars, histVars, fetchVars, storeVars, envVars>>

\* transaction: await client.query('COMMIT'); return result; the finally
\* releases.  A failing COMMIT enters the catch.
TransactionCommit(c, ok) ==
  /\ calls[c].pc = "commit"
  /\ ~ok => faults < MaxFaults
  /\ faults' = IF ok THEN faults ELSE faults + 1
  /\ calls' = [calls EXCEPT ![c] =
                 IF ok THEN Settle([@ EXCEPT !.commit = TRUE, !.released = @ + 1],
                                   "none")
                 ELSE [@ EXCEPT !.commit = TRUE, !.pc = "rollback",
                                !.error = "statement"]]
  /\ UNCHANGED <<orchVars, connVars, histVars, fetchVars, storeVars>>

\* transaction: catch (error) { await client.query('ROLLBACK'); throw error }
\* finally { client.release() }: a failing ROLLBACK throws out of the catch
\* in place of error.
TransactionRollback(c, ok) ==
  /\ calls[c].pc = "rollback"
  /\ ~ok => faults < MaxFaults
  /\ faults' = IF ok THEN faults ELSE faults + 1
  /\ calls' = [calls EXCEPT ![c] =
                 Settle([@ EXCEPT !.rollback = TRUE, !.released = @ + 1],
                        IF ok THEN calls[c].error ELSE "rollback")]
  /\ UNCHANGED <<orchVars, connVars, histVars, fetchVars, storeVars>>

\* ---------------------------------------------------------- specifications
\* Rows of email_accounts left by earlier runs: exactly one active account.
InitialTables ==
  {[a \in AccountIds |-> IF a = k THEN "active"
                         ELSE IF a < k THEN "inactive" ELSE "absent"] : k \in 1..2}

InitOrch ==
  /\ accounts = [a \in AccountIds |-> "none"]
  /\ connections = [a \in AccountIds |-> NoConn]
  /\ isRunning = FALSE
  /\ syncInterval = FALSE
  /\ intervals = 0
  /\ startPc = "idle"
  /\ loaded = {}
  /\ addPc = 0
  /\ addActive = FALSE
  /\ reconnect = [a \in AccountIds |-> 0]
  /\ crashed = FALSE
  /\ lastApi = "none"
  /\ stopped = FALSE
  /\ sinceRestart = FALSE
  /\ returned = NoCall

InitStores ==
  /\ bursts = [b \in BurstIds |-> FreshBurst]
  /\ procs = [b \in BurstIds |-> FreshProc]
  /\ docs = [d \in DocIds |-> FreshDoc]
  /\ db = {}
  /\ emailSeq = 0
  /\ es = {}
  /\ vec = {}
  /\ slack = {}
  /\ webhook = {}
  /\ emitted = {}
  /\ processed = {}
  /\ faults = 0
  /\ calls = [c \in CallIds |-> FreshCall]

\* State after construction; the accounts table holds the rows of earlier runs.
InitSync ==
  /\ dbAccounts \in InitialTables
  /\ conn = [c \in ConnIds |-> FreshConn]
  /\ InitOrch
  /\ InitStores

NextSync ==
  \/ StartSyncBegin
  \/ StartSyncFailed
  \/ StartSyncLoaded
  \/ StopSync
  \/ \E active \in BOOLEAN : AddAccountBegin(active)
  \/ AddAccountFailed
  \/ AddAccountDone
  \/ \E c \in ConnIds : ConnReady(c)
  \/ \E c \in ConnIds : ConnError(c)
  \/ \E c \in ConnIds : ConnErrorAgain(c)
  \/ \E c \in ConnIds : ServerHangup(c)
  \/ \E c \in ConnIds : ConnEnd(c)
  \/ \E a \in AccountIds : ReconnectTimer(a)

SpecSync == InitSync /\ [][NextSync]_vars

\* The orchestrator and its connections from construction up to the first
\* stopSync(): every way a connection is created, fails, ends or is retried.
NextStartup ==
  \/ StartSyncBegin
  \/ StartSyncFailed
  \/ StartSyncLoaded
  \/ \E active \in BOOLEAN : AddAccountBegin(active)
  \/ AddAccountFailed
  \/ AddAccountDone
  \/ \E c \in ConnIds : ConnReady(c)
  \/ \E c \in ConnIds : ConnError(c)
  \/ \E c \in ConnIds : ConnErrorAgain(c)
  \/ \E c \in ConnIds : ServerHangup(c)
  \/ \E c \in ConnIds : ConnEnd(c)
  \/ \E a \in AccountIds : ReconnectTimer(a)

SpecStartup == InitSync /\ [][NextStartup]_vars

\* The orchestrator after startSync() and the 'ready' event of the connection
\* of the one active account; with watching, also after the openBox and the
\* look-back search of every folder.
InitConnected(tables, watching) ==
  /\ dbAccounts \in tables
  /\ accounts = [a \in AccountIds |-> IF dbAccounts[a] = "active" THEN "active" ELSE "none"]
  /\ LET a == CHOOSE x \in AccountIds : dbAccounts[x] = "active"
     IN /\ connections = [x \in AccountIds |-> IF x = a THEN 1 ELSE NoConn]
        /\ conn = [c \in ConnIds |->
                     IF c = 1
                     THEN IF watching
                          THEN [FreshConn EXCEPT
                                  !.state = "open", !.acct = a, !.errArmed = TRUE,
                                  !.listeners = FoldersOf(a), !.idle = TRUE,
                                  !.box = FoldersOf(a)[Len(FoldersOf(a))]]
                          ELSE [FreshConn EXCEPT
                                  !.state = "open", !.acct = a, !.errArmed = TRUE,
                                  !.queue = OpenBoxCmds(FoldersOf(a))]
                     ELSE FreshConn]
  /\ isRunning = TRUE
  /\ syncInterval = TRUE
  /\ intervals = 1
  /\ startPc = "idle"
  /\ loaded = {}
  /\ addPc = 0
  /\ addActive = FALSE
  /\ reconnect = [a \in AccountIds |-> 0]
  /\ crashed = FALSE
  /\ lastApi = "start"
  /\ stopped = FALSE
  /\ sinceRestart = FALSE
  /\ returned = Resolved("startSync", 0)

\* The connection of an account watching one or several folders: commands,
\* notifications and fetch bursts up to the call of processEmails.
InitFetch == InitConnected(InitialTables, FALSE) /\ InitStores

NextFetch ==
  \/ \E c \in ConnIds, ok \in BOOLEAN : OpenBoxDone(c, ok)
  \/ \E c \in ConnIds, ok \in BOOLEAN, r \in SearchResults : SearchSinceDone(c, ok, r)
  \/ \E c \in ConnIds : MailEvent(c)
  \/ \E c \in ConnIds, ok \in BOOLEAN, r \in SearchResults : SearchUnseenDone(c, ok, r)
  \/ \E b \in BurstIds : FetchMessage(b)
  \/ \E b \in BurstIds, k \in 1..MaxUid, ok \in BOOLEAN : ParseDone(b, k, ok)
  \/ \E b \in BurstIds : FetchEnd(b)
  \/ \E b \in BurstIds : FetchError(b)
  \/ StopSync
  \/ \E c \in ConnIds : ConnEnd(c)

SpecFetch == InitFetch /\ [][NextFetch]_vars

\* The connection of an account watching one folder, with the pipeline that
\* processEmails runs on every batch.
InitPipeline == InitConnected({t \in InitialTables : t[1] = "active"}, FALSE) /\ InitStores

NextPipeline ==
  \/ \E c \in ConnIds, ok \in BOOLEAN : OpenBoxDone(c, ok)
  \/ \E c \in ConnIds, ok \in BOOLEAN, r \in SearchResults : SearchSinceDone(c, ok, r)
  \/ \E c \in ConnIds : MailEvent(c)
  \/ \E c \in ConnIds, ok \in BOOLEAN, r \in SearchResults : SearchUnseenDone(c, ok, r)
  \/ \E b \in BurstIds : FetchMessage(b)
  \/ \E b \in BurstIds, k \in 1..MaxUid, ok \in BOOLEAN : ParseDone(b, k, ok)
  \/ \E b \in BurstIds : FetchEnd(b)
  \/ \E b \in BurstIds : FetchError(b)
  \/ \E b \in BurstIds, ok \in BOOLEAN : Check(b, ok)
  \/ \E b \in BurstIds, o \in AIOutcomes : Classify(b, o)
  \/ \E b \in BurstIds, ok \in BOOLEAN : Store(b, ok)
  \/ \E b \in BurstIds, ok \in BOOLEAN : Index(b, ok)
  \/ \E b \in BurstIds, ok \in BOOLEAN : Vector(b, ok)
  \/ \E b \in BurstIds, ok \in BOOLEAN : Slack(b, ok)
  \/ \E b \in BurstIds, ok \in BOOLEAN : Webhook(b, ok)
  \/ \E b \in BurstIds : Emit(b)
  \/ StopSync
  \/ \E c \in ConnIds : ConnEnd(c)

SpecPipeline == InitPipeline /\ [][NextPipeline]_vars

\* The searches of a connection watching one folder holding up to MaxBacklog
\* messages, up to the fetch requests they lead to.
NextBacklog ==
  \/ \E c \in ConnIds, ok \in BOOLEAN : OpenBoxDone(c, ok)
  \/ \E c \in ConnIds, ok \in BOOLEAN, r \in Backlogs : SearchSinceAnswer(c, ok, r)
  \/ \E c \in ConnIds : MailEvent(c)
  \/ \E c \in ConnIds, ok \in BOOLEAN, r \in Backlogs : SearchUnseenAnswer(c, ok, r)

SpecBacklog == InitPipeline /\ [][NextBacklog]_vars

\* Batches at the call of processEmails: every id of every fetch was parsed
\* before the 'end' event of its fetch. qs[b] holds the ids of burst b.
RECURSIVE Offset(_, _)
Offset(qs, b) == IF b = 1 THEN 0 ELSE Offset(qs, b - 1) + Len(qs[b - 1])

Batches ==
  {qs \in [BurstIds -> SearchResults] :
     /\ qs[1] # <<>>
     /\ \A b \in BurstIds : (b > 1 /\ qs[b] # <<>>) => (qs[b - 1] # <<>> /\ b <= MaxBatches)
     /\ Offset(qs, MaxBursts) + Len(qs[MaxBursts]) <= MaxFetched}

InitProcess ==
  /\ InitConnected({t \in InitialTables : t[1] = "active"}, TRUE)
  /\ db = {} /\ emailSeq = 0 /\ es = {} /\ vec = {} /\ slack = {} /\ webhook = {}
  /\ emitted = {} /\ processed = {} /\ faults = 0
  /\ calls = [c \in CallIds |-> FreshCall]
  /\ \E qs \in Batches :
       /\ bursts = [b \in BurstIds |->
                      IF qs[b] = <<>> THEN FreshBurst
                      ELSE [FreshBurst EXCEPT
                              !.state = "ended", !.conn = 1, !.acct = 1,
                              !.folder = "INBOX", !.box = "INBOX", !.uids = qs[b],
                              !.next = Len(qs[b]) + 1,
                              !.emails = [i \in 1..Len(qs[b]) |-> Offset(qs, b) + i]]]
       /\ procs = [b \in BurstIds |->
                     IF qs[b] = <<>> THEN FreshProc
                     ELSE [FreshProc EXCEPT !.step = "check", !.i = 1]]
       /\ docs = [d \in DocIds |->
                    IF \E b \in BurstIds : d - Offset(qs, b) \in 1..Len(qs[b])
                    THEN LET b == CHOOSE x \in BurstIds : d - Offset(qs, x) \in 1..Len(qs[x])
                         IN EmailDoc(d, qs[b][d - Offset(qs, b)], 1, "INBOX")
                    ELSE FreshDoc]

NextProcess ==
  \/ \E b \in BurstIds, ok \in BOOLEAN : Check(b, ok)
  \/ \E b \in BurstIds, o \in AIOutcomes : Classify(b, o)
  \/ \E b \in BurstIds, ok \in BOOLEAN : Store(b, ok)
  \/ \E b \in BurstIds, ok \in BOOLEAN : Index(b, ok)
  \/ \E b \in BurstIds, ok \in BOOLEAN : Vector(b, ok)
  \/ \E b \in BurstIds, ok \in BOOLEAN : Slack(b, ok)
  \/ \E b \in BurstIds, ok \in BOOLEAN : Webhook(b, ok)
  \/ \E b \in BurstIds : Emit(b)

SpecProcess == InitProcess /\ [][NextProcess]_vars

\* Message-ID headers that the server assigns to mailbox items.
ServerMids == {ServerMid(u) : u \in Uids} \ {0}

\* Rows that earlier runs left in the emails table for the Message-IDs of S,
\* read from folder 'Sent', with whatever flags the user has set since.
RECURSIVE PriorTables(_)
PriorTables(S) ==
  IF S = {} THEN {{}}
  ELSE LET m == CHOOSE x \in S : \A y \in S : x >= y
       IN {t \cup {[id |-> Cardinality(S), messageId |-> <<"srv", m>>, acct |-> 1,
                     folder |-> "Sent", aiCategory |-> "Interested",
                     aiConfidence |-> AIConfidence, isRead |-> f[1],
                     isImportant |-> f[2], updatedAt |-> 0]} :
             t \in PriorTables(S \ {m}), f \in BOOLEAN \X BOOLEAN}

\* processEmails of one batch over an emails table that holds rows of earlier
\* runs, with the PATCH and DELETE routes of the API called at any time.
InitStore ==
  /\ InitConnected({t \in InitialTables : t[1] = "active"}, TRUE)
  /\ es = {} /\ vec = {} /\ slack = {} /\ webhook = {}
  /\ emitted = {} /\ processed = {} /\ faults = 0
  /\ calls = [c \in CallIds |-> FreshCall]
  /\ \E S \in SUBSET ServerMids :
       /\ db \in PriorTables(S)
       /\ emailSeq = Cardinality(S)
  /\ \E q \in SearchResults \ {<<>>} :
       /\ Len(q) <= MaxFetched
       /\ bursts = [b \in BurstIds |->
                      IF b > 1 THEN FreshBurst
                      ELSE [FreshBurst EXCEPT
                              !.state = "ended", !.conn = 1, !.acct = 1,
                              !.folder = "INBOX", !.box = "INBOX", !.uids = q,
                              !.next = Len(q) + 1,
                              !.emails = [i \in 1..Len(q) |-> i]]]
       /\ procs = [b \in BurstIds |->
                     IF b > 1 THEN FreshProc
                     ELSE [FreshProc EXCEPT !.step = "check", !.i = 1]]
       /\ docs = [d \in DocIds |->
                    IF d <= Len(q) THEN EmailDoc(d, q[d], 1, "INBOX") ELSE FreshDoc]

RowIds == 1..(Cardinality(ServerMids) + MaxFetched)

NextStore ==
  \/ \E b \in BurstIds, ok \in BOOLEAN : Check(b, ok)
  \/ \E b \in BurstIds, o \in AIOutcomes : Classify(b, o)
  \/ \E b \in BurstIds, ok \in BOOLEAN : Store(b, ok)
  \/ \E b \in BurstIds, ok \in BOOLEAN : Index(b, ok)
  \/ \E b \in BurstIds, ok \in BOOLEAN : Vector(b, ok)
  \/ \E b \in BurstIds, ok \in BOOLEAN : Slack(b, ok)
  \/ \E b \in BurstIds, ok \in BOOLEAN : Webhook(b, ok)
  \/ \E b \in BurstIds : Emit(b)
  \/ \E n \in RowIds, isRead \in BOOLEAN, isImportant \in BOOLEAN :
       PatchEmail(n, isRead, isImportant)
  \/ \E n \in RowIds : DeleteEmail(n)

SpecStore == InitStore /\ [][NextStore]_vars

\* The ingestion pipeline alone over the same populated table: the rows the
\* user has marked are met only by storeEmailInDatabase.
SpecUpsert == InitStore /\ [][NextProcess]_vars

\* The service after construction, serving up to MaxCalls overlapping callers.
InitPool == InitSync

NextPool ==
  \/ \E c \in CallIds, method \in PoolMethods : PoolCall(c, method)
  \/ \E c \in CallIds, ok \in BOOLEAN : PoolConnect(c, ok)
  \/ \E c \in CallIds, ok \in BOOLEAN : InitializeTest(c, ok)
  \/ \E c \in CallIds, ok \in BOOLEAN : CreateTablesConnect(c, ok)
  \/ \E c \in CallIds, ok \in BOOLEAN : CreateTablesRun(c, ok)
  \/ \E c \in CallIds, ok \in BOOLEAN : QueryRun(c, ok)
  \/ \E c \in CallIds, ok \in BOOLEAN : TransactionBegin(c, ok)
  \/ \E c \in CallIds, ok \in BOOLEAN : TransactionCallback(c, ok)
  \/ \E c \in CallIds, ok \in BOOLEAN : TransactionCommit(c, ok)
  \/ \E c \in CallIds, ok \in BOOLEAN : TransactionRollback(c, ok)

SpecPool == InitPool /\ [][NextPool]_vars

\* The event loop resumes processEmails whenever the promise it awaits has
\* settled, and every collaborator but the classification provider settles
\* its promise; the provider is free never to answer.
FairProcess ==
  /\ WF_vars(\E b \in BurstIds, ok \in BOOLEAN : Check(b, ok))
  /\ WF_vars(\E b \in BurstIds, ok \in BOOLEAN : Store(b, ok))
  /\ WF_vars(\E b \in BurstIds, ok \in BOOLEAN : Index(b, ok))
  /\ WF_vars(\E b \in BurstIds, ok \in BOOLEAN : Vector(b, ok))
  /\ WF_vars(\E b \in BurstIds, ok \in BOOLEAN : Slack(b, ok))
  /\ WF_vars(\E b \in BurstIds, ok \in BOOLEAN : Webhook(b, ok))
  /\ WF_vars(\E b \in BurstIds : Emit(b))

SpecProcessFair == InitProcess /\ [][NextProcess]_vars /\ FairProcess

\* ------------------------------------------------------------------ claims
PipelineSteps == {"classify", "store", "index", "vector", "slack", "webhook", "emit"}

\* C1: a message whose identifier had already been processed to the end when
\* its fetch was issued is dropped by the duplicate check, so no pipeline step
\* ever runs for it.
C1_DuplicateDropped ==
  \A b \in BurstIds :
    procs[b].step \in PipelineSteps =>
      docs[Email(b)].messageId \notin bursts[b].seenBefore

\* C2: no message identifier has more than one record, neither in the emails
\* table nor in the search index.
C2_OneRecordPerIdentifier ==
  \A d \in DocIds :
    docs[d].used =>
      /\ Cardinality({r \in db : r.messageId = docs[d].messageId}) <= 1
      /\ Cardinality({e \in es : e.messageId = docs[d].messageId}) <= 1

\* C3: an error while forwarding one message never ends the batch while later
\* messages of the batch are still waiting.
C3_BatchSurvivesError ==
  \A b \in BurstIds :
    procs[b].step = "aborted" => procs[b].i >= Len(bursts[b].emails)

\* C4: after stopSync() directly followed by startSync(), every account that is
\* active in the store has exactly one connection, every other account has
\* none, and no connection from before the stop is among them.
C4_RestartLeavesOneConnection ==
  sinceRestart =>
    \A a \in AccountIds :
      /\ Cardinality(LiveConns(a)) = IF dbAccounts[a] = "active" THEN 1 ELSE 0
      /\ \A c \in LiveConns(a) : ~conn[c].old

\* A step of processEmails that calls a collaborator or emits newEmail.
DownstreamCall ==
  \E b \in BurstIds : procs[b].step \in PipelineSteps /\ procs'[b] # procs[b]

\* C5: between the return of stopSync() and the next startSync() no pipeline
\* step (classify, persist, index, semantic store, notify, emit) is taken.
C5_NoCallsAfterStop == [][stopped => ~DownstreamCall]_vars

\* C6: while the orchestrator is running, a connection that stops being live
\* leaves a reconnect timeout pending for its account.
C6_FailureSchedulesReconnect ==
  [][\A c \in ConnIds :
       (isRunning /\ isRunning' /\ Live(c) /\ conn'[c].state \notin {"connecting", "open"})
         => reconnect'[conn[c].acct] > reconnect[conn[c].acct]]_vars

\* The documents of q follow the order of the ids of the fetch.
InIdOrder(q) ==
  \A i, j \in 1..Len(q) : i < j => docs[q[i]].uid < docs[q[j]].uid

\* C7: processEmails is called for a batch only when every id has been parsed
\* or has failed, with the parsed messages in the order of the ids, and it is
\* called whenever the completed batch holds a parsed message.
C7_BatchHandedOverComplete ==
  \A b \in BurstIds :
    /\ procs[b].step # "none" => (bursts[b].pending = {} /\ InIdOrder(bursts[b].emails))
    /\ (bursts[b].state = "ended" /\ bursts[b].pending = {} /\ bursts[b].emails # <<>>)
         => procs[b].step # "none"

\* Burst b was requested from the server and has not ended, or is being parsed.
UnderWay(b) == bursts[b].state = "fetching" \/ bursts[b].pending # {}

\* C8: an account never has two fetch bursts under way (requested from the
\* server or still being parsed) at the same time.
C8_OneBurstPerAccount ==
  \A a \in AccountIds :
    Cardinality({b \in BurstIds : bursts[b].acct = a /\ UnderWay(b)}) <= 1

\* C9: every account has at most one connecting or open connection.
C9_OneLiveConnection ==
  \A a \in AccountIds : Cardinality(LiveConns(a)) <= 1

\* C10: a failed classification never ends the batch: the message goes on to
\* the persist step with label 'Not Interested' and confidence 0.5, exactly
\* these values are written to its row, and the loop carries on.
C10_ClassifyFailureDefaults ==
  [][\A b \in BurstIds :
       /\ (At(b, "classify") /\ procs'[b] # procs[b]) =>
            /\ procs'[b].step = "store"
            /\ procs'[b].aiFailed =>
                 /\ procs'[b].category = "Not Interested"
                 /\ procs'[b].confidence = DefaultConfidence
       /\ (At(b, "store") /\ procs[b].aiFailed /\ procs'[b] # procs[b] /\ faults' = faults) =>
            /\ procs'[b].step = "index"
            /\ \E r \in db' : /\ r.messageId = docs[Email(b)].messageId
                              /\ r.aiCategory = "Not Interested"
                              /\ r.aiConfidence = DefaultConfidence]_vars

\* A batch of two messages ran to its end although the classification of the
\* first one failed: its row carries the default, the second one was emitted.
C10_Witness ==
  \E b \in BurstIds :
    /\ procs[b].step = "done"
    /\ Len(bursts[b].emails) = 2
    /\ faults = 1
    /\ \E r \in db : /\ r.messageId = docs[bursts[b].emails[1]].messageId
                     /\ r.aiCategory = "Not Interested"
                     /\ r.aiConfidence = DefaultConfidence
    /\ bursts[b].emails[2] \in emitted

\* C11: a connection is only ever created for, registered under or scheduled
\* to reconnect for an account whose active flag in the store is true; an
\* account stored as inactive stays without any connection.
C11_InactiveNeverConnected ==
  /\ \A c \in ConnIds : conn[c].acct # 0 => dbAccounts[conn[c].acct] = "active"
  /\ \A a \in AccountIds : connections[a] # NoConn => dbAccounts[a] = "active"
  /\ \A a \in AccountIds : reconnect[a] > 0 => dbAccounts[a] = "active"

\* startSync() returned with account 2 active and account 1 inactive: account 2
\* has a connection, account 1 has none.
C11_Witness ==
  /\ returned = Resolved("startSync", 0)
  /\ dbAccounts[1] = "inactive"
  /\ dbAccounts[2] = "active"
  /\ LiveConns(2) # {}
  /\ \A c \in ConnIds : conn[c].acct # 1
  /\ connections[1] = NoConn

\* C12: a pipeline step of a message (classify, persist, index, semantic
\* store, notify) never ends the work on that message, whether the step
\* succeeds or fails: the next step of the same message follows.
C12_StepFailureContinues ==
  [][\A b \in BurstIds :
       (procs[b].step \in PipelineSteps \ {"emit"} /\ procs'[b] # procs[b])
         => (procs'[b].step \in PipelineSteps /\ procs'[b].i = procs[b].i)]_vars

\* The connections of account a that are connecting.
Connecting(cn, a) == {c \in ConnIds : cn[c].acct = a /\ cn[c].state = "connecting"}

\* C13: when addAccount resolves, the account is in the store, it is in the
\* account map under the identifier the store assigned, that identifier is the
\* value returned, and one more connection is connecting for it exactly if it
\* is active, nothing else about the connections having changed; when
\* addAccount rejects, the store, the map and the connections are as before.
C13_AddAccountContract ==
  [][/\ (addPc # 0 /\ addPc' = 0) =>
          /\ addPc = NextAccountId - 1
          /\ dbAccounts[addPc] = (IF addActive THEN "active" ELSE "inactive")
          /\ accounts'[addPc] = dbAccounts[addPc]
          /\ \A a \in AccountIds \ {addPc} : accounts'[a] = accounts[a]
          /\ returned' = Resolved("addAccount", addPc)
          /\ Cardinality(Connecting(conn', addPc)) =
               Cardinality(Connecting(conn, addPc)) + (IF addActive THEN 1 ELSE 0)
          /\ \A c \in ConnIds : conn'[c] # conn[c] => c \in Connecting(conn', addPc)
          /\ connections' = connections
     /\ (returned'.call = "addAccount" /\ returned'.threw /\ faults' # faults) =>
          /\ dbAccounts' = dbAccounts
          /\ accounts' = accounts
          /\ conn' = conn
          /\ connections' = connections]_vars

\* addAccount resolved with identifier 2 for an active account after an earlier
\* addAccount had failed: the account is registered and is connecting.
C13_Witness ==
  /\ returned = Resolved("addAccount", 2)
  /\ faults = 1
  /\ lastApi = "add"
  /\ accounts[2] = "active"
  /\ Connecting(conn, 2) # {}

\* C14: a startSync() whose loading of the accounts fails rejects and leaves
\* the connections, the timers, the running flag and the account map as they
\* were.
C14_LoadFailureAbortsStartup ==
  [][(startPc = "loading" /\ startPc' = "idle" /\ faults' # faults) =>
       /\ returned' = Rejected("startSync")
       /\ conn' = conn
       /\ connections' = connections
       /\ reconnect' = reconnect
       /\ intervals' = intervals
       /\ syncInterval' = syncInterval
       /\ isRunning' = isRunning
       /\ accounts' = accounts]_vars

\* The first startSync() rejected: nothing runs, no connection exists, no
\* timer is armed.
C14_Witness ==
  /\ returned = Rejected("startSync")
  /\ lastApi = "start"
  /\ ~isRunning
  /\ intervals = 0
  /\ ~syncInterval
  /\ \A c \in ConnIds : conn[c].state = "unused"
  /\ \A a \in AccountIds : accounts[a] = "none"

\* C15: a newEmail event exists only for a message that has its row in the
\* emails table and its document in the search index, and no message
\* identifier has two of them.
C15_EmitOnlyAfterForward ==
  /\ \A d \in emitted :
       /\ \E r \in db : r.messageId = docs[d].messageId
       /\ \E e \in es : e.id = d
  /\ \A d, e \in emitted : docs[d].messageId = docs[e].messageId => d = e

\* C16: a stopSync() called before any startSync(), or directly after another
\* stopSync(), resolves and leaves the running flag false, no interval timer
\* armed and the connection map empty.
C16_StopSyncSafe ==
  [][(StopSync /\ lastApi \in {"none", "stop"}) =>
       /\ returned' = Resolved("stopSync", 0)
       /\ ~isRunning'
       /\ ~syncInterval'
       /\ intervals' = 0
       /\ \A a \in AccountIds : connections'[a] = NoConn]_vars

\* C17: every 'error' event of a connection finds a handler and adds one
\* reconnect timeout for the account of the connection.
C17_EveryErrorHandled ==
  [][\A c \in ConnIds :
       (ConnError(c) \/ ConnErrorAgain(c)) =>
         /\ ~crashed'
         /\ reconnect'[conn[c].acct] = reconnect[conn[c].acct] + 1]_vars

\* C18: whatever the UNSEEN search of handleNewMail answers, the connection is
\* in the push-wait mode when its callback returns.
C18_MailHandlingResumesIdle ==
  [][\A c \in ConnIds :
       (\E ok \in BOOLEAN, r \in SearchResults : SearchUnseenDone(c, ok, r))
         => conn'[c].idle]_vars

\* C19: never more than one interval timer is armed, and none is armed from
\* the return of stopSync() to the next startSync().
C19_OneTimerDisarmedByStop ==
  /\ intervals <= 1
  /\ stopped => intervals = 0

\* C20: no fetch requests more than FetchCap ids.
C20_BatchBounded ==
  \A b \in BurstIds : Len(bursts[b].uids) <= FetchCap

\* C21: two parses of the same mailbox item (same account, folder and uid)
\* give the same message identifier, with or without a Message-ID header.
C21_IdentifierDeterministic ==
  \A d, e \in DocIds :
    (docs[d].used /\ docs[e].used /\ docs[d].acct = docs[e].acct
       /\ docs[d].folder = docs[e].folder /\ docs[d].uid = docs[e].uid)
      => docs[d].messageId = docs[e].messageId

\* C22: a message waiting for its classification does not wait for ever.
\* The source sets no timer on the provider call, so this is as strong as
\* the client library's own request timeout, which FairProcess leaves out.
C22_ClassificationBounded ==
  \A b \in BurstIds : At(b, "classify") ~> ~At(b, "classify")

\* C23: Slack and the webhook are called for 'Interested' messages only, and
\* processEmails is never suspended waiting for one of them.
C23_SinksFireAndForget ==
  /\ \A d \in slack \cup webhook : \E e \in es : e.id = d /\ e.aiCategory = "Interested"
  /\ \A b \in BurstIds : procs[b].step \notin {"slack", "webhook"}

\* The order of the steps of one message.
StepOrder ==
  {<<"check", "classify">>, <<"classify", "store">>, <<"store", "index">>,
   <<"index", "vector">>, <<"vector", "slack">>, <<"vector", "emit">>,
   <<"slack", "webhook">>, <<"webhook", "emit">>}

\* C24: processEmails works on one message of its batch at a time, in the
\* order of the batch: every step either moves the current message to its
\* next step in the order classify, persist, index, semantic store, notify,
\* emit, or ends the invocation, or goes from the end of message i (its emit,
\* or its duplicate check) to the beginning of message i + 1, and the
\* invocation is done only after the last message.
C24_OneAtATimeInOrder ==
  [][\A b \in BurstIds :
       (procs[b].step # "none" /\ procs'[b] # procs[b]) =>
         \/ /\ procs'[b].i = procs[b].i
            /\ <<procs[b].step, procs'[b].step>> \in StepOrder
         \/ /\ procs'[b].i = procs[b].i
            /\ procs'[b].step = "aborted"
         \/ /\ procs'[b].i = procs[b].i + 1
            /\ procs[b].step \in {"check", "emit"}
            /\ procs'[b].step = "check"
            /\ procs'[b].i <= Len(bursts[b].emails)
         \/ /\ procs'[b].i = procs[b].i
            /\ procs[b].step \in {"check", "emit"}
            /\ procs'[b].step = "done"
            /\ procs[b].i = Len(bursts[b].emails)]_vars

\* A batch of two messages is done: both went through every step and were
\* emitted.
C24_Witness ==
  \E b \in BurstIds :
    /\ procs[b].step = "done"
    /\ procs[b].i = 2
    /\ faults = 0
    /\ \A k \in 1..2 : /\ bursts[b].emails[k] \in emitted
                        /\ bursts[b].emails[k] \in vec
                        /\ \E e \in es : e.id = bursts[b].emails[k]

\* C25: when startSync() resolves, the account map holds exactly the accounts
\* that are active in the store.
C25_MapRebuiltFromStore ==
  [][StartSyncLoaded =>
       accounts' = [a \in AccountIds |->
                      IF dbAccounts'[a] = "active" THEN "active" ELSE "none"]]_vars

\* C26: the map entry of an account is removed only when the connection it
\* holds stops being open; replacing it by a newer connection is allowed.
C26_EntryRemovedOnlyByItsConnection ==
  [][\A a \in AccountIds :
       (connections[a] # NoConn /\ connections'[a] = NoConn)
         => conn'[connections[a]].state # "open"]_vars

\* C30: every batch handed to processEmails is labelled with the folder that
\* was selected on the connection when its ids were searched and fetched.
C30_FolderLabelIsSelectedFolder ==
  \A b \in BurstIds : procs[b].step # "none" => bursts[b].folder = bursts[b].box

\* C27: a successful store of a message whose identifier already has a row
\* leaves that row in place with its id, account, folder, read flag and
\* important flag as they were, gives it the new label and confidence, and
\* neither adds, removes nor changes any other row.
C27_UpsertFrame ==
  [][\A b \in BurstIds :
       (/\ At(b, "store")
        /\ procs'[b] # procs[b]
        /\ emailSeq' # emailSeq
        /\ \E r \in db : r.messageId = docs[Email(b)].messageId) =>
         /\ Cardinality(db') = Cardinality(db)
         /\ \A r \in db :
              IF r.messageId = docs[Email(b)].messageId
              THEN \E q \in db' :
                     /\ q.id = r.id
                     /\ q.messageId = r.messageId
                     /\ q.acct = r.acct
                     /\ q.folder = r.folder
                     /\ q.isRead = r.isRead
                     /\ q.isImportant = r.isImportant
                     /\ q.aiCategory = procs[b].category
                     /\ q.aiConfidence = procs[b].confidence
              ELSE r \in db']_vars

\* A row of an earlier run, read and marked important by the user, was stored
\* again by the pipeline with another label: flags and folder are as before.
C27_Witness ==
  \E r \in db :
    /\ r.folder = "Sent"
    /\ r.updatedAt > 0
    /\ r.aiCategory = "Not Interested"
    /\ r.isRead
    /\ r.isImportant
    /\ \E b \in BurstIds : procs[b].step = "index"
                            /\ docs[Email(b)].messageId = r.messageId

\* C28: when a row leaves the emails table, no document of its message
\* remains in the search index or in the vector collection.
C28_DeleteRemovesEverywhere ==
  [][\A r \in db :
       (\A q \in db' : q.id # r.id) =>
         /\ \A e \in es' : e.messageId # r.messageId
         /\ \A d \in vec' : docs[d].messageId # r.messageId]_vars

\* C29: every DatabaseService invocation that has ended released each client
\* it acquired exactly once; a transaction issued COMMIT exactly when its
\* callback completed without error, and when the callback threw it issued
\* ROLLBACK and rejected with the callback's error.
C29_ClientsReleasedTransactionAtomic ==
  \A c \in CallIds :
    calls[c].pc = "done" =>
      /\ calls[c].released = calls[c].acquired
      /\ calls[c].method = "transaction" =>
           /\ calls[c].commit <=> calls[c].callback = "ok"
           /\ calls[c].callback = "threw" =>
                /\ calls[c].rollback
                /\ calls[c].outcome = "threw"
                /\ calls[c].error = "callback"

====
